---- MODULE Spec2Model ----
(***************************************************************************)
(* wpilib_sys: the safety wrapper around the native HAL.                   *)
(*                                                                         *)
(* The model follows src/error.rs (the hal_call macro and the status-code  *)
(* translation From<i32> for HalError) and the peripheral modules built on *)
(* it (src/hal/counter.rs, relay.rs, interrupt.rs, serial_io.rs).  The     *)
(* native library is                                                       *)
(* the environment: every native function, when it is invoked, may write   *)
(* any status into the status slot and return any value.                   *)
(***************************************************************************)
EXTENDS Integers, FiniteSets, Sequences, TLC

VARIABLES
    initialized,   \* the process-wide flag read by hal_is_initialized()
    ih,            \* the owning wrappers (InterruptHandler, InterruptHandlerSync,
                   \* HalSpi, I2C) and the native resource each one stands for
    last           \* what the most recent operation did and returned

vars == <<initialized, ih, last>>

(***************************************************************************)
(* Bounds                                                                  *)
(***************************************************************************)
MaxHandlers == 2

Handlers == 1..MaxHandlers

(***************************************************************************)
(* Native status codes of the raw bindings, matched in From<i32> for HalError *)
(***************************************************************************)
\* The raw bindings are generated from the vendor's header and are not part of
\* the sources; the values below are the vendor's.  The translation depends
\* only on their signs and on their being distinct.
SAMPLE_RATE_TOO_HIGH == 1001
VOLTAGE_OUT_OF_RANGE == 1002
LOOP_TIMING_ERROR == 1004
SPI_WRITE_NO_MOSI == 1012
SPI_READ_NO_MISO == 1013
SPI_READ_NO_DATA == 1014
INCOMPATIBLE_STATE == 1015
NO_AVAILABLE_RESOURCES == -1004
NULL_PARAMETER == -1005
ANALOG_TRIGGER_LIMIT_ORDER_ERROR == -1010
ANALOG_TRIGGER_PULSE_OUTPUT_ERROR == -1011
PARAMETER_OUT_OF_RANGE == -1028
RESOURCE_IS_ALLOCATED == -1029
RESOURCE_OUT_OF_RANGE == -1030
HAL_INVALID_ACCUMULATOR_CHANNEL == -1035
HAL_COUNTER_NOT_SUPPORTED == -1058
HAL_PWM_SCALE_ERROR == -1072
HAL_HANDLE_ERROR == -1098
HAL_SERIAL_PORT_NOT_FOUND == -1123
HAL_SERIAL_PORT_OPEN_ERROR == -1124
HAL_SERIAL_PORT_ERROR == -1125
HAL_THREAD_PRIORITY_ERROR == -1152
HAL_THREAD_PRIORITY_RANGE_ERROR == -1153

\* i32 limits.  A u32 is kept as its top bit and its low 31 bits, so that the
\* two casts of From<i32> (code as u32, k as i32) keep their width.
I32Max == 2147483647
I32Min == (-I32Max) - 1

U32(n) == [top |-> 0, low |-> n]
AsU32(x) == IF x >= 0 THEN [top |-> 0, low |-> x] ELSE [top |-> 1, low |-> x - I32Min]
AsI32(u) == IF u.top = 1 THEN u.low + I32Min ELSE u.low

PositiveCodes ==
    { SAMPLE_RATE_TOO_HIGH, VOLTAGE_OUT_OF_RANGE, LOOP_TIMING_ERROR, SPI_WRITE_NO_MOSI,
      SPI_READ_NO_MISO, SPI_READ_NO_DATA, INCOMPATIBLE_STATE }

NegativeCodes ==
    { NO_AVAILABLE_RESOURCES, NULL_PARAMETER, ANALOG_TRIGGER_LIMIT_ORDER_ERROR,
      ANALOG_TRIGGER_PULSE_OUTPUT_ERROR, PARAMETER_OUT_OF_RANGE, RESOURCE_IS_ALLOCATED,
      RESOURCE_OUT_OF_RANGE, HAL_INVALID_ACCUMULATOR_CHANNEL, HAL_COUNTER_NOT_SUPPORTED,
      HAL_PWM_SCALE_ERROR, HAL_HANDLE_ERROR, HAL_SERIAL_PORT_NOT_FOUND,
      HAL_SERIAL_PORT_OPEN_ERROR, HAL_SERIAL_PORT_ERROR, HAL_THREAD_PRIORITY_ERROR,
      HAL_THREAD_PRIORITY_RANGE_ERROR }

\* The i32 values the conversion is exercised on: every listed code, its
\* sign-flipped twin, its two neighbours, zero, the unused -9999 and the extremes.
AllCodes ==
    LET T == PositiveCodes \cup NegativeCodes
    IN  T \cup { -c : c \in T } \cup { c + 1 : c \in T } \cup { c - 1 : c \in T }
          \cup { 0, 1, -1, 9999, -9999, I32Min, I32Max, I32Min + 1, I32Max - 1 }

\* The statuses a native function writes in the wrapped-call actions.
NativeStatuses ==
    { 0, RESOURCE_IS_ALLOCATED, -9999, LOOP_TIMING_ERROR, -1001, I32Min }

(***************************************************************************)
(* Values, errors and results                                              *)
(***************************************************************************)
Unit == [t |-> "unit", n |-> 0]
IntVal(n) == [t |-> "int", n |-> n]
BoolVal(b) == [t |-> "bool", n |-> IF b THEN 1 ELSE 0]

NoError == [tag |-> "NoError", kind |-> "", code |-> 0]
HalNotInitialized == [tag |-> "HalNotInitialized", kind |-> "", code |-> 0]
Named(k) == [kind |-> k, code |-> 0]
Unknown(c) == [kind |-> "Unknown", code |-> c]
Hal(ffi) == [tag |-> "Hal", kind |-> ffi.kind, code |-> ffi.code]

Ok(v) == [tag |-> "Ok", val |-> v, err |-> NoError]
Err(e) == [tag |-> "Err", val |-> Unit, err |-> e]
NoResult == [tag |-> "None", val |-> Unit, err |-> NoError]
\* a plain return value, of an operation that returns no Result
Plain(v) == [tag |-> "Plain", val |-> v, err |-> NoError]

\* Result::map: an Ok carries v, the closure applied to its value; an Err is kept
Map(r, v) == IF r.tag = "Ok" THEN Ok(v) ELSE r

(***************************************************************************)
(* From<i32> for HalError (src/error.rs:156-196)                           *)
(***************************************************************************)
\* match code as u32 { ... }: the arm taken for a non-negative code
PositiveTable(k) ==
    CASE k = U32(SAMPLE_RATE_TOO_HIGH) -> Named("SampleRateTooHigh")
      [] k = U32(VOLTAGE_OUT_OF_RANGE) -> Named("VoltageOutOfRange")
      [] k = U32(LOOP_TIMING_ERROR) -> Named("LoopTimingError")
      [] k = U32(SPI_WRITE_NO_MOSI) -> Named("SpiWriteNoMosi")
      [] k = U32(SPI_READ_NO_MISO) -> Named("SpiReadNoMiso")
      [] k = U32(SPI_READ_NO_DATA) -> Named("SpiReadNoData")
      [] k = U32(INCOMPATIBLE_STATE) -> Named("IncompatibleState")
      [] OTHER -> Unknown(AsI32(k))

\* match code { ... }: the arm taken for a negative code
NegativeTable(code) ==
    CASE code = NO_AVAILABLE_RESOURCES -> Named("NoAvailableResources")
      [] code = NULL_PARAMETER -> Named("NullParameter")
      [] code = ANALOG_TRIGGER_LIMIT_ORDER_ERROR -> Named("AnalogTriggerLimitOrderError")
      [] code = ANALOG_TRIGGER_PULSE_OUTPUT_ERROR -> Named("AnalogTriggerPuseOutputError")
      [] code = PARAMETER_OUT_OF_RANGE -> Named("ParameterOutOfRange")
      [] code = RESOURCE_IS_ALLOCATED -> Named("ResourceIsAllocated")
      [] code = RESOURCE_OUT_OF_RANGE -> Named("ResourceOutOfRange")
      [] code = HAL_INVALID_ACCUMULATOR_CHANNEL -> Named("InvalidAccumulatorChannel")
      [] code = HAL_COUNTER_NOT_SUPPORTED -> Named("CounterNotSupported")
      [] code = HAL_PWM_SCALE_ERROR -> Named("PwmScaleError")
      [] code = HAL_HANDLE_ERROR -> Named("HandleError")
      [] code = HAL_SERIAL_PORT_NOT_FOUND -> Named("SerialPortNotFound")
      [] code = HAL_SERIAL_PORT_OPEN_ERROR -> Named("SerialPortNotOpen")
      [] code = HAL_SERIAL_PORT_ERROR -> Named("SerialPortError")
      [] code = HAL_THREAD_PRIORITY_ERROR -> Named("ThreadPriorityError")
      [] code = HAL_THREAD_PRIORITY_RANGE_ERROR -> Named("ThreadPriorityRangeError")
      [] OTHER -> Unknown(code)

\* A conversion that was not made, and the record of one that was: the code
\* given, the tables consulted and the error built.
NoConv == [called |-> FALSE, code |-> 0, tables |-> {}, err |-> NoError]

\* Mutant: one merged table keyed by magnitude, consulted for either sign.
HalError_from_merged(code) ==
    LET m == IF code < 0 /\ code > I32Min THEN -code ELSE code
        p == IF m >= 0 THEN PositiveTable(AsU32(m)) ELSE Unknown(code)
        n == IF code = I32Min THEN Unknown(code)
             ELSE NegativeTable(IF code > 0 THEN -code ELSE code)
        e == IF p.kind # "Unknown" THEN p ELSE IF n.kind # "Unknown" THEN n ELSE Unknown(code)
    IN  [called |-> TRUE, code |-> code, tables |-> {"positive", "negative"}, err |-> Hal(e)]

\* Mutant: an unlisted code loses its number.
HalError_from_dropping(code) ==
    LET e == IF code >= 0 THEN PositiveTable(AsU32(code)) ELSE NegativeTable(code)
    IN  [called |-> TRUE, code |-> code,
         tables |-> IF code >= 0 THEN {"positive"} ELSE {"negative"},
         err |-> Hal(IF e.kind = "Unknown" THEN Unknown(0) ELSE e)]

\* Mutant: the two thread-priority arms are swapped.
HalError_from_swapped(code) ==
    LET e == IF code >= 0 THEN PositiveTable(AsU32(code)) ELSE NegativeTable(code)
        f == CASE e.kind = "ThreadPriorityError" -> Named("ThreadPriorityRangeError")
               [] e.kind = "ThreadPriorityRangeError" -> Named("ThreadPriorityError")
               [] OTHER -> e
    IN  [called |-> TRUE, code |-> code,
         tables |-> IF code >= 0 THEN {"positive"} ELSE {"negative"}, err |-> Hal(f)]

\* HalError::from(code), with the table its branch on the sign consulted
HalError_from(code) ==
    IF code >= 0
    THEN [called |-> TRUE, code |-> code, tables |-> {"positive"},
          err |-> Hal(PositiveTable(AsU32(code)))]
    ELSE [called |-> TRUE, code |-> code, tables |-> {"negative"},
          err |-> Hal(NegativeTable(code))]

(***************************************************************************)
(* hal_call (src/error.rs:11-29)                                           *)
(*                                                                         *)
(* init is what hal_is_initialized() returns; out is what the native       *)
(* function does if it is invoked: the value it leaves in the status slot  *)
(* (ptr arm) or returns as the status (ret arm), and its return value.     *)
(* The result says how many times the native function was invoked and      *)
(* which conversion, if any, was made.                                     *)
(***************************************************************************)
\* Mutant: the initialization check is skipped.
hal_call_ptr_unchecked(init, out) ==
    IF out.status = 0
    THEN [res |-> Ok(out.ret), native |-> 1, status |-> out.status, conv |-> NoConv]
    ELSE [res |-> Err(HalError_from(out.status).err), native |-> 1, status |-> out.status,
          conv |-> HalError_from(out.status)]

\* Mutant: the status test is inverted.
hal_call_ptr_inverted(init, out) ==
    IF init
    THEN IF out.status # 0
         THEN [res |-> Ok(out.ret), native |-> 1, status |-> out.status, conv |-> NoConv]
         ELSE [res |-> Err(HalError_from(out.status).err), native |-> 1,
               status |-> out.status, conv |-> HalError_from(out.status)]
    ELSE [res |-> Err(HalNotInitialized), native |-> 0, status |-> 0, conv |-> NoConv]

\* Mutant: a failing status is reported as a fixed error.
hal_call_ptr_fixed_error(init, out) ==
    IF init
    THEN IF out.status = 0
         THEN [res |-> Ok(out.ret), native |-> 1, status |-> out.status, conv |-> NoConv]
         ELSE [res |-> Err(HalError_from(HAL_HANDLE_ERROR).err), native |-> 1,
               status |-> out.status, conv |-> HalError_from(HAL_HANDLE_ERROR)]
    ELSE [res |-> Err(HalNotInitialized), native |-> 0, status |-> 0, conv |-> NoConv]

\* Mutant: success yields unit instead of the native return value.
hal_call_ptr_unit(init, out) ==
    IF init
    THEN IF out.status = 0
         THEN [res |-> Ok(Unit), native |-> 1, status |-> out.status, conv |-> NoConv]
         ELSE [res |-> Err(HalError_from(out.status).err), native |-> 1,
               status |-> out.status, conv |-> HalError_from(out.status)]
    ELSE [res |-> Err(HalNotInitialized), native |-> 0, status |-> 0, conv |-> NoConv]

\* The status slot of a call: whether one was passed to the native function,
\* the value it held when passed and the value it held on return.
NoSlot == [passed |-> FALSE, init |-> 0, after |-> 0]
Slot(init, after) == [passed |-> TRUE, init |-> init, after |-> after]

\* What the native function leaves in a slot that held slot0: the status it
\* reports, and, when it reports success, the slot as it found it (a function
\* that stores 0 on success leaves a zeroed slot the same).
SlotAfter(slot0, out) == IF out.status = 0 THEN slot0 ELSE out.status

\* Mutant: the status slot is not zeroed before the call.
hal_call_ptr_stale_slot(init, out) ==
    IF init
    THEN LET status == SlotAfter(-1, out)
         IN  IF status = 0
             THEN [res |-> Ok(out.ret), native |-> 1, status |-> status, conv |-> NoConv,
                   slot |-> Slot(-1, status)]
             ELSE [res |-> Err(HalError_from(status).err), native |-> 1, status |-> status,
                   conv |-> HalError_from(status), slot |-> Slot(-1, status)]
    ELSE [res |-> Err(HalNotInitialized), native |-> 0, status |-> 0, conv |-> NoConv,
          slot |-> NoSlot]

\* (ptr $function(args)): let mut status = 0, passed as &mut status; the status
\* comes back through this out-parameter
hal_call_ptr(init, out) ==
    IF init
    THEN LET status == SlotAfter(0, out)
         IN  IF status = 0
             THEN [res |-> Ok(out.ret), native |-> 1, status |-> status, conv |-> NoConv,
                   slot |-> Slot(0, status)]
             ELSE [res |-> Err(HalError_from(status).err), native |-> 1, status |-> status,
                   conv |-> HalError_from(status), slot |-> Slot(0, status)]
    ELSE [res |-> Err(HalNotInitialized), native |-> 0, status |-> 0, conv |-> NoConv,
          slot |-> NoSlot]

\* (ret $function(args)): let status = $function(args): no slot is passed, the
\* status is the native function's return value
hal_call_ret(init, out) ==
    IF init
    THEN IF out.status = 0
         THEN [res |-> Ok(Unit), native |-> 1, status |-> out.status, conv |-> NoConv,
               slot |-> NoSlot]
         ELSE [res |-> Err(HalError_from(out.status).err), native |-> 1,
               status |-> out.status, conv |-> HalError_from(out.status), slot |-> NoSlot]
    ELSE [res |-> Err(HalNotInitialized), native |-> 0, status |-> 0, conv |-> NoConv,
          slot |-> NoSlot]

(***************************************************************************)
(* The record of an operation                                              *)
(***************************************************************************)
\* Values a native function returns
RetVals == { 0, 1, 42 }

\* What a native function does when invoked: the status it reports and the
\* value it returns (Unit for a function declared void).
NativeValue == [status : NativeStatuses, ret : { IntVal(n) : n \in RetVals }]
NativeVoid == [status : NativeStatuses, ret : { Unit }]

\* op: the operation; h: the interrupt handler it is about (0: none);
\* init: the flag when it ran; wrapped: whether it went through hal_call;
\* native: how many times it invoked a native function; status, ret: what the
\* native function reported and returned; res: what the operation returned;
\* input, arg: a bool argument and the integer passed for it (for a
\* conversion, input is the value converted and back the result converted back);
\* conv: the status-code conversion made; slot: the status slot passed to the
\* native function (none for an operation that passes none); ctx, obj, outcome: for a native
\* invocation of the interrupt handler, the state of the storage behind the
\* context pointer, the state of the owning object, and what the call did.
Record(op, h, wrapped, r, ret) ==
    [op |-> op, h |-> h, init |-> initialized, wrapped |-> wrapped, native |-> r.native,
     status |-> r.status, ret |-> IF r.native > 0 THEN ret ELSE Unit, res |-> r.res,
     conv |-> r.conv, slot |-> IF "slot" \in DOMAIN r THEN r.slot ELSE NoSlot,
     input |-> Unit, arg |-> Unit, back |-> Unit, ctx |-> "n/a", obj |-> "n/a", outcome |-> "n/a"]

\* b as HAL_Bool: the integer a bool argument is passed as
AsHalBool(b) == IntVal(IF b THEN 1 ELSE 0)

\* The record of a call that takes a bool: input is the bool given to the
\* wrapper, arg the integer the native function received (if it was invoked)
WithBool(rec, b) ==
    [rec EXCEPT !.input = BoolVal(b), !.arg = IF rec.native > 0 THEN AsHalBool(b) ELSE Unit]

\* A native function called directly, outside hal_call: it is invoked whatever
\* the flag says, and no status reaches the caller.
Direct(res) == [res |-> res, native |-> 1, status |-> 0, conv |-> NoConv]

NoHandler == [obj |-> "none", kind |-> "none", open |-> FALSE, attached |-> FALSE,
              closure |-> "none", acquired |-> 0, cleanCalls |-> 0, port |-> 0,
              read_size |-> 0]

Init ==
    /\ initialized = FALSE
    /\ ih = [h \in Handlers |-> NoHandler]
    /\ last = Record("start", 0, FALSE,
                     [res |-> NoResult, native |-> 0, status |-> 0, conv |-> NoConv], Unit)

(***************************************************************************)
(* Bring-up: the single write of the flag                                  *)
(***************************************************************************)
hal_initialize ==
    /\ ~initialized
    /\ initialized' = TRUE
    /\ last' = Record("hal_initialize", 0, FALSE,
                      [res |-> NoResult, native |-> 0, status |-> 0, conv |-> NoConv], Unit)
    /\ UNCHANGED ih

(***************************************************************************)
(* HalError::from called on a status code                                  *)
(***************************************************************************)
from ==
    \E code \in AllCodes :
        /\ last' = Record("from", 0, FALSE,
                          [res |-> Err(HalError_from(code).err), native |-> 0, status |-> 0,
                           conv |-> HalError_from(code)], Unit)
        /\ UNCHANGED <<initialized, ih>>

(***************************************************************************)
(* A use of the ret arm of hal_call                                        *)
(***************************************************************************)
call_ret ==
    \E out \in NativeVoid :
        /\ last' = Record("call_ret", 0, TRUE, hal_call_ret(initialized, out),
                          IntVal(out.status))
        /\ UNCHANGED <<initialized, ih>>

(***************************************************************************)
(* src/hal/counter.rs                                                      *)
(***************************************************************************)
\* free, set_reverse_direction and the other setters of counter.rs are one and
\* the same call shape, hal_call![ ptr f(handle, ...) ] on a void function; the
\* two below stand for them.
free ==
    \E out \in NativeVoid :
        /\ last' = Record("free", 0, TRUE, hal_call_ptr(initialized, out), out.ret)
        /\ UNCHANGED <<initialized, ih>>

set_reverse_direction ==
    \E reverse_direction \in BOOLEAN, out \in NativeVoid :
        /\ last' = WithBool(Record("set_reverse_direction", 0, TRUE,
                                   hal_call_ptr(initialized, out), out.ret),
                            reverse_direction)
        /\ UNCHANGED <<initialized, ih>>

reset ==
    \E out \in NativeVoid :
        /\ last' = Record("reset", 0, TRUE, hal_call_ptr(initialized, out), out.ret)
        /\ UNCHANGED <<initialized, ih>>

get ==
    \E out \in NativeValue :
        /\ last' = Record("get", 0, TRUE, hal_call_ptr(initialized, out), out.ret)
        /\ UNCHANGED <<initialized, ih>>

\* Mutant: only 1 counts as true.
NonZero_only_one(v) == BoolVal(v.n = 1)

\* .map(|n| n != 0)
NonZero(v) == BoolVal(v.n # 0)

get_stopped ==
    \E out \in NativeValue :
        LET r == hal_call_ptr(initialized, out)
        IN  /\ last' = Record("get_stopped", 0, TRUE, [r EXCEPT !.res = Map(r.res, NonZero(r.res.val))],
                              out.ret)
            /\ UNCHANGED <<initialized, ih>>

get_direction ==
    \E out \in NativeValue :
        LET r == hal_call_ptr(initialized, out)
        IN  /\ last' = Record("get_direction", 0, TRUE,
                              [r EXCEPT !.res = Map(r.res, NonZero(r.res.val))], out.ret)
            /\ UNCHANGED <<initialized, ih>>

(***************************************************************************)
(* src/hal/relay.rs                                                        *)
(***************************************************************************)
\* .map(|n| RelayHandle(n))
RelayHandle(v) == [t |-> "RelayHandle", n |-> v.n]

hal_initialize_relay_port ==
    \E out \in NativeValue :
        LET r == hal_call_ptr(initialized, out)
        IN  /\ last' = Record("hal_initialize_relay_port", 0, TRUE,
                              [r EXCEPT !.res = Map(r.res, RelayHandle(r.res.val))], out.ret)
            /\ UNCHANGED <<initialized, ih>>

free_relay_port ==
    /\ last' = Record("free_relay_port", 0, FALSE, Direct(NoResult), Unit)
    /\ UNCHANGED <<initialized, ih>>

check_relay_channel ==
    \E n \in RetVals :
        /\ last' = Record("check_relay_channel", 0, FALSE,
                          Direct(Plain(BoolVal(n # 0))), IntVal(n))
        /\ UNCHANGED <<initialized, ih>>

set_relay ==
    \E on \in BOOLEAN, out \in NativeVoid :
        /\ last' = WithBool(Record("set_relay", 0, TRUE, hal_call_ptr(initialized, out),
                                   out.ret), on)
        /\ UNCHANGED <<initialized, ih>>

get_relay ==
    \E out \in NativeValue :
        LET r == hal_call_ptr(initialized, out)
        IN  /\ last' = Record("get_relay", 0, TRUE, [r EXCEPT !.res = Map(r.res, NonZero(r.res.val))],
                              out.ret)
            /\ UNCHANGED <<initialized, ih>>

(***************************************************************************)
(* src/hal/notifier.rs                                                     *)
(***************************************************************************)
clean_notifier ==
    \E out \in NativeVoid :
        /\ last' = Record("clean_notifier", 0, TRUE, hal_call_ptr(initialized, out), out.ret)
        /\ UNCHANGED <<initialized, ih>>

(***************************************************************************)
(* src/hal/interrupt.rs: the asynchronous InterruptHandler                 *)
(*                                                                         *)
(* ih[h].obj is the InterruptHandler object that owns native handle h      *)
(* (none, live, dropped); open and attached are the native side's table:   *)
(* whether handle h is allocated and whether a handler function and its    *)
(* context pointer are registered on it; closure is the state of the       *)
(* storage that context pointer refers to; acquired counts the successful  *)
(* native initializations made for h and cleanCalls the                    *)
(* HAL_CleanInterrupts calls made for h.                                   *)
(***************************************************************************)
InterruptHandlerOf(v) == [t |-> "InterruptHandler", n |-> v.n]

\* attach_handler takes `mut func: F` by value: the closure is a local of the
\* call's stack frame, and user_param is the address of that local.
FuncStorage == "stack"

\* What is left of a storage once attach_handler has returned
AfterReturn(storage) == IF storage = "stack" THEN "freed" ELSE "live"

\* The native side of HAL_InitializeInterrupts, HAL_AttachInterruptHandler
\* and HAL_CleanInterrupts on one entry of its table
HAL_InitializeInterrupts(e) == [e EXCEPT !.open = TRUE, !.acquired = @ + 1]
HAL_AttachInterruptHandler(e, storage) == [e EXCEPT !.attached = TRUE, !.closure = storage]
HAL_CleanInterrupts(e) ==
    [e EXCEPT !.open = FALSE, !.attached = FALSE, !.cleanCalls = @ + 1]

InterruptHandler_new ==
    \E h \in Handlers, status \in NativeStatuses :
        LET out == [status |-> status, ret |-> IntVal(h)]
            r == hal_call_ptr(initialized, out)
        IN  /\ ih[h].obj = "none"
            /\ \A g \in Handlers : g < h => ih[g].obj # "none"
            /\ last' = Record("InterruptHandler::new", h, TRUE,
                              [r EXCEPT !.res = Map(r.res, InterruptHandlerOf(r.res.val))], out.ret)
            /\ ih' = IF r.res.tag = "Ok"
                     THEN [ih EXCEPT ![h] = [HAL_InitializeInterrupts(@)
                                                EXCEPT !.obj = "live",
                                                       !.kind = "InterruptHandler"]]
                     ELSE ih
            /\ UNCHANGED initialized

enable ==
    \E h \in Handlers, out \in NativeVoid :
        /\ ih[h].obj = "live"
        /\ ih[h].kind = "InterruptHandler"
        /\ last' = Record("enable", h, TRUE, hal_call_ptr(initialized, out), out.ret)
        /\ UNCHANGED <<initialized, ih>>

disable ==
    \E h \in Handlers, out \in NativeVoid :
        /\ ih[h].obj = "live"
        /\ ih[h].kind = "InterruptHandler"
        /\ last' = Record("disable", h, TRUE, hal_call_ptr(initialized, out), out.ret)
        /\ UNCHANGED <<initialized, ih>>

\* The call registers handler::<F> with user_param = &mut func, then returns,
\* which ends the life of func.
attach_handler ==
    \E h \in Handlers, out \in NativeVoid :
        LET r == hal_call_ptr(initialized, out)
        IN  /\ ih[h].obj = "live"
            /\ ih[h].kind = "InterruptHandler"
            /\ last' = Record("attach_handler", h, TRUE, r, out.ret)
            /\ ih' = IF r.res.tag = "Ok"
                     THEN [ih EXCEPT
                             ![h] = HAL_AttachInterruptHandler(@, AfterReturn(FuncStorage))]
                     ELSE ih
            /\ UNCHANGED initialized

\* Mutant: the teardown forgets the native clean call.
InterruptHandler_drop_forgetting(h) ==
    \E status \in NativeStatuses :
        /\ ih[h].obj = "live"
        /\ ih[h].kind = "InterruptHandler"
        /\ ih' = [ih EXCEPT ![h].obj = "dropped"]
        /\ last' = Record("drop", h, FALSE,
                          [res |-> NoResult, native |-> 0, status |-> 0, conv |-> NoConv],
                          Unit)
        /\ UNCHANGED initialized

\* impl Drop for InterruptHandler: HAL_CleanInterrupts(self.handle, null_mut()),
\* called directly and not through hal_call.  status is what the native call
\* would have reported had it been given a slot; with the null pointer nothing
\* of it comes back.
InterruptHandler_drop(h) ==
    \E status \in NativeStatuses :
        /\ ih[h].obj = "live"
        /\ ih[h].kind = "InterruptHandler"
        /\ ih' = [ih EXCEPT ![h] = [HAL_CleanInterrupts(@) EXCEPT !.obj = "dropped"]]
        /\ last' = Record("drop", h, FALSE,
                          [res |-> NoResult, native |-> 1, status |-> status,
                           conv |-> NoConv], Unit)
        /\ UNCHANGED initialized

drop == \E h \in Handlers : InterruptHandler_drop(h)

\* The native side raises an interrupt on h and calls handler::<F>(mask, param),
\* which dereferences param as the closure.  Through a pointer to freed storage
\* that is undefined: the call may still find the closure, run garbage or fault.
handler ==
    \E h \in Handlers :
        /\ ih[h].open
        /\ ih[h].attached
        /\ \E o \in (IF ih[h].closure = "live" THEN { "callback" }
                     ELSE { "callback", "garbage", "fault" }) :
              last' = [Record("handler", h, FALSE,
                              [res |-> NoResult, native |-> 0, status |-> 0,
                               conv |-> NoConv], Unit)
                         EXCEPT !.ctx = ih[h].closure, !.obj = ih[h].obj, !.outcome = o]
        /\ UNCHANGED <<initialized, ih>>

(***************************************************************************)
(* src/hal/serial_io.rs: SpiPort                                           *)
(***************************************************************************)
\* enum SpiPort { CS0, CS1, CS2, CS3, MXP, Unknown(i32) }
SpiPortNamed(name) == [t |-> name, n |-> 0]
SpiPortUnknown(k) == [t |-> "Unknown", n |-> k]

\* The integers and the SpiPort values the conversions are exercised on
PortInts == { -1, 0, 1, 2, 3, 4, 5, 42, I32Min, I32Max }
SpiPorts ==
    { SpiPortNamed(name) : name \in { "CS0", "CS1", "CS2", "CS3", "MXP" } }
        \cup { SpiPortUnknown(k) : k \in PortInts }

\* SpiPort::get_port
get_port(p) ==
    CASE p.t = "CS0" -> 0
      [] p.t = "CS1" -> 1
      [] p.t = "CS2" -> 2
      [] p.t = "CS3" -> 3
      [] p.t = "MXP" -> 4
      [] OTHER -> p.n

\* Mutant: the MXP arm is missing.
SpiPort_from_without_mxp(i) ==
    CASE i = 0 -> SpiPortNamed("CS0")
      [] i = 1 -> SpiPortNamed("CS1")
      [] i = 2 -> SpiPortNamed("CS2")
      [] i = 3 -> SpiPortNamed("CS3")
      [] OTHER -> SpiPortUnknown(i)

\* impl From<i32> for SpiPort
SpiPort_from(i) ==
    CASE i = 0 -> SpiPortNamed("CS0")
      [] i = 1 -> SpiPortNamed("CS1")
      [] i = 2 -> SpiPortNamed("CS2")
      [] i = 3 -> SpiPortNamed("CS3")
      [] i = 4 -> SpiPortNamed("MXP")
      [] OTHER -> SpiPortUnknown(i)

NoCall == [res |-> NoResult, native |-> 0, status |-> 0, conv |-> NoConv]

\* SpiPort::from(i), and the port number of the result
spi_port_from ==
    \E i \in PortInts :
        /\ last' = [Record("SpiPort::from", 0, FALSE, NoCall, Unit)
                      EXCEPT !.input = IntVal(i), !.res = Plain(SpiPort_from(i)),
                             !.back = IntVal(get_port(SpiPort_from(i)))]
        /\ UNCHANGED <<initialized, ih>>

\* p.get_port(), and the SpiPort of the result
spi_get_port ==
    \E p \in SpiPorts :
        /\ last' = [Record("SpiPort::get_port", 0, FALSE, NoCall, Unit)
                      EXCEPT !.input = p, !.res = Plain(IntVal(get_port(p))),
                             !.back = SpiPort_from(get_port(p))]
        /\ UNCHANGED <<initialized, ih>>

(***************************************************************************)
(* src/hal/interrupt.rs: the synchronous InterruptHandlerSync              *)
(***************************************************************************)
\* The first free entry of the table
FreeSlot(h) ==
    /\ ih[h].obj = "none"
    /\ \A g \in Handlers : g < h => ih[g].obj # "none"

InterruptHandlerSyncOf(v) == [t |-> "InterruptHandlerSync", n |-> v.n]

\* InterruptHandlerSync::new: hal_call!(HAL_InitializeInterrupts(0)).map(..)
InterruptHandlerSync_new ==
    \E h \in Handlers, status \in { 0, RESOURCE_IS_ALLOCATED, -9999 } :
        LET out == [status |-> status, ret |-> IntVal(h)]
            r == hal_call_ptr(initialized, out)
        IN  /\ FreeSlot(h)
            /\ last' = Record("InterruptHandlerSync::new", h, TRUE,
                              [r EXCEPT !.res = Map(r.res, InterruptHandlerSyncOf(r.res.val))],
                              out.ret)
            /\ ih' = IF r.res.tag = "Ok"
                     THEN [ih EXCEPT ![h] = [HAL_InitializeInterrupts(@)
                                                EXCEPT !.obj = "live",
                                                       !.kind = "InterruptHandlerSync"]]
                     ELSE ih
            /\ UNCHANGED initialized

\* An InterruptHandlerSync goes out of scope.  The type has no Drop impl and
\* its only field is the integer handle: nothing is called.
InterruptHandlerSync_drop ==
    \E h \in Handlers :
        /\ ih[h].obj = "live"
        /\ ih[h].kind = "InterruptHandlerSync"
        /\ ih' = [ih EXCEPT ![h].obj = "dropped"]
        /\ last' = Record("InterruptHandlerSync::drop", h, FALSE, NoCall, Unit)
        /\ UNCHANGED initialized

(***************************************************************************)
(* src/hal/serial_io.rs: HalSpi and I2C                                    *)
(***************************************************************************)
\* lazy_static: each is an immutable Vec::new(); nothing pushes to them
INITIALIZED_SPI_PORTS == {}
INITIALIZED_I2C_PORTS == {}

ResourceAlreadyInitialized == [tag |-> "ResourceAlreadyInitialized", kind |-> "", code |-> 0]

Some(v) == [tag |-> "Some", val |-> v, err |-> NoError]
OptionNone == [tag |-> "Option::None", val |-> Unit, err |-> NoError]

SpiOptions_default == [read_size |-> 1]
I2cOptions_default == [read_size |-> 1]

\* What the native initializer of a port does when invoked
NativeInit == [status : { 0, RESOURCE_IS_ALLOCATED, -9999 }, ret : { Unit }]

\* The ports the constructors are called with
SerialSpiPorts == { SpiPortNamed("CS0"), SpiPortUnknown(0), SpiPortNamed("MXP") }
I2cPorts == { "OnBoard", "MXP" }

\* I2cPort::get_port
I2cPort_get_port(p) == IF p = "OnBoard" THEN 0 ELSE 1

HalSpiOf(h) == [t |-> "HalSpi", n |-> h]
I2COf(h) == [t |-> "I2C", n |-> h]

\* Whether a live wrapper of that kind already stands for the port
PortLive(kind, port) ==
    \E g \in Handlers : ih[g].obj = "live" /\ ih[g].kind = kind /\ ih[g].port = port

\* hal::spi and hal::i2c: the typed equivalents of HAL_InitializeSPI,
\* HAL_CloseSPI, HAL_InitializeI2C and HAL_CloseI2C.  An initializer is a
\* wrapped call; a close returns nothing and reports nothing.
initialize_spi(init, out) == hal_call_ptr(init, out)
initialize_i2c(init, out) == hal_call_ptr(init, out)
close_spi(e) == [e EXCEPT !.open = FALSE, !.cleanCalls = @ + 1]
close_i2c(e) == [e EXCEPT !.open = FALSE, !.cleanCalls = @ + 1]

\* What the native side holds for a port after its initializer ran with result r
NativeOpened(e, r) ==
    [e EXCEPT !.open = (r.res.tag = "Ok"), !.acquired = IF r.res.tag = "Ok" THEN 1 ELSE 0]

\* The HalSpi { port, opts } built at the end of HalSpi::new
HalSpi_value(port, r) ==
    [NativeOpened(NoHandler, r)
        EXCEPT !.obj = "live", !.kind = "HalSpi", !.port = get_port(port),
               !.read_size = SpiOptions_default.read_size]

\* Mutant: the error of the initialization is not propagated.
HalSpi_try_ignoring(r, h, port) == [ih EXCEPT ![h] = HalSpi_value(port, r)]

\* spi::initialize_spi(port.get_port())?; Ok(HalSpi { .. })
HalSpi_try(r, h, port) ==
    IF r.res.tag = "Ok" THEN [ih EXCEPT ![h] = HalSpi_value(port, r)] ELSE ih

HalSpi_new ==
    \E h \in Handlers, port \in SerialSpiPorts, out \in NativeInit :
        LET r == initialize_spi(initialized, out)
            ctx == IF PortLive("HalSpi", get_port(port)) THEN "port live" ELSE "port free"
        IN  /\ FreeSlot(h)
            /\ IF get_port(port) \in INITIALIZED_SPI_PORTS
               THEN /\ last' = [Record("HalSpi::new", h, FALSE,
                                       [NoCall EXCEPT !.res = Err(ResourceAlreadyInitialized)],
                                       Unit)
                                  EXCEPT !.input = port, !.ctx = ctx]
                    /\ ih' = ih
               ELSE /\ last' = [Record("HalSpi::new", h, TRUE,
                                       [r EXCEPT !.res = Map(r.res, HalSpiOf(h))], out.ret)
                                  EXCEPT !.input = port, !.ctx = ctx]
                    /\ ih' = HalSpi_try(r, h, port)
            /\ UNCHANGED initialized

\* impl Drop for HalSpi: spi::close_spi(self.port)
HalSpi_drop ==
    \E h \in Handlers :
        /\ ih[h].obj = "live"
        /\ ih[h].kind = "HalSpi"
        /\ ih' = [ih EXCEPT ![h] = [close_spi(@) EXCEPT !.obj = "dropped"]]
        /\ last' = Record("HalSpi::drop", h, FALSE, Direct(NoResult), Unit)
        /\ UNCHANGED initialized

\* I2C::new(port, address) = I2C::new_with_opts(port, address, Default::default()).
\* The result of i2c::initialize_i2c is discarded: the I2C is built either way.
\* The address is stored and takes part in no decision.
I2C_new ==
    \E h \in Handlers, port \in I2cPorts, out \in NativeInit :
        LET r == initialize_i2c(initialized, out)
            ctx == IF PortLive("I2C", I2cPort_get_port(port)) THEN "port live" ELSE "port free"
        IN  /\ FreeSlot(h)
            /\ IF I2cPort_get_port(port) \in INITIALIZED_I2C_PORTS
               THEN /\ last' = [Record("I2C::new", h, FALSE,
                                       [NoCall EXCEPT !.res = OptionNone], Unit)
                                  EXCEPT !.ctx = ctx]
                    /\ ih' = ih
               ELSE /\ last' = [Record("I2C::new", h, TRUE, [r EXCEPT !.res = Some(I2COf(h))],
                                       out.ret)
                                  EXCEPT !.ctx = ctx]
                    /\ ih' = [ih EXCEPT ![h] =
                                [NativeOpened(NoHandler, r)
                                    EXCEPT !.obj = "live", !.kind = "I2C",
                                           !.port = I2cPort_get_port(port),
                                           !.read_size = I2cOptions_default.read_size]]
            /\ UNCHANGED initialized

\* impl Drop for I2C: i2c::close_i2c(self.port)
I2C_drop ==
    \E h \in Handlers :
        /\ ih[h].obj = "live"
        /\ ih[h].kind = "I2C"
        /\ ih' = [ih EXCEPT ![h] = [close_i2c(@) EXCEPT !.obj = "dropped"]]
        /\ last' = Record("I2C::drop", h, FALSE, Direct(NoResult), Unit)
        /\ UNCHANGED initialized

(***************************************************************************)
(* src/hal/serial_io.rs: HalSerialIO and its Read / Write adapter          *)
(***************************************************************************)
MaxBuf == 1

\* The lengths of the caller's buffer
BufLens == 0..MaxBuf

SerialReadError == [tag |-> "SerialError", kind |-> "ReadError", code |-> 0]
SerialWriteError == [tag |-> "SerialError", kind |-> "WriteError", code |-> 0]

\* IoError::new(ErrorKind::Other, inner)
IoOther(inner) == [tag |-> "io::Error", kind |-> "Other", inner |-> inner]

\* count as usize: the value itself for a count that is not negative, and a
\* sign-extended (wrapped) value for a negative one
AsUsize(n) == IF n >= 0 THEN [t |-> "usize", n |-> n] ELSE [t |-> "usize wrapped", n |-> n]

\* Mutant: -1 is not taken for a failure.
Read_read_below_minus_one(hr) ==
    IF hr.tag = "Err"
    THEN Err(IoOther(hr.err))
    ELSE IF hr.val.n < -1 THEN Err(IoOther(SerialReadError)) ELSE Ok(AsUsize(hr.val.n))

\* impl Read for HalSerialIO: read, given what self.hal_read(buf) returned
Read_read(hr) ==
    IF hr.tag = "Err"
    THEN Err(IoOther(hr.err))
    ELSE IF hr.val.n <= -1 THEN Err(IoOther(SerialReadError)) ELSE Ok(AsUsize(hr.val.n))

\* impl Write for HalSerialIO: write, given what self.hal_write(buf) returned
Write_write(hw) ==
    IF hw.tag = "Err"
    THEN Err(IoOther(hw.err))
    ELSE IF hw.val.n <= -1 THEN Err(IoOther(SerialWriteError)) ELSE Ok(AsUsize(hw.val.n))

\* What an implementation of hal_read / hal_write may return
HalCounts == { I32Min, -1, 0, MaxBuf, I32Max }
HalResults ==
    { Ok(IntVal(n)) : n \in HalCounts }
        \cup { Err(e) : e \in { HalNotInitialized, HalError_from(-9999).err } }

\* read / write over any HalSerialIO
io_read ==
    \E hr \in HalResults :
        /\ last' = [Record("Read::read", 0, FALSE, NoCall, Unit)
                      EXCEPT !.input = hr, !.res = Read_read(hr)]
        /\ UNCHANGED <<initialized, ih>>

io_write ==
    \E hw \in HalResults :
        /\ last' = [Record("Write::write", 0, FALSE, NoCall, Unit)
                      EXCEPT !.input = hw, !.res = Write_write(hw)]
        /\ UNCHANGED <<initialized, ih>>

\* spi::read_spi / i2c::read_i2c and spi::write_spi / i2c::write_i2c hand the
\* buffer and the count to the native transfer, which returns -1 or the number
\* of bytes moved, at most the count it was asked for.
NativeTransfer(count) == { -1 } \cup (0..count)

\* impl HalSerialIO for HalSpi / I2C: hal_read asks for self.opts.read_size bytes
hal_read(e, len) == e.read_size

\* impl HalSerialIO for HalSpi / I2C: hal_write asks for buf.len() bytes
hal_write(e, len) == len

\* (&mut dev as &mut HalSerialIO).read(buf) on a HalSpi or an I2C
read ==
    \E h \in Handlers, len \in BufLens :
        /\ ih[h].obj = "live"
        /\ ih[h].kind \in { "HalSpi", "I2C" }
        /\ \E n \in NativeTransfer(hal_read(ih[h], len)) :
              last' = [Record("read", h, FALSE, Direct(Read_read(Ok(IntVal(n)))), IntVal(n))
                         EXCEPT !.input = IntVal(len), !.arg = IntVal(hal_read(ih[h], len)),
                                !.obj = ih[h].kind]
        /\ UNCHANGED <<initialized, ih>>

\* (&mut dev as &mut HalSerialIO).write(buf) on a HalSpi or an I2C
write ==
    \E h \in Handlers, len \in BufLens :
        /\ ih[h].obj = "live"
        /\ ih[h].kind \in { "HalSpi", "I2C" }
        /\ \E n \in NativeTransfer(hal_write(ih[h], len)) :
              last' = [Record("write", h, FALSE, Direct(Write_write(Ok(IntVal(n)))), IntVal(n))
                         EXCEPT !.input = IntVal(len), !.arg = IntVal(hal_write(ih[h], len)),
                                !.obj = ih[h].kind]
        /\ UNCHANGED <<initialized, ih>>

(***************************************************************************)
(* The specification                                                       *)
(***************************************************************************)
Next ==
    \/ hal_initialize
    \/ from
    \/ call_ret
    \/ free
    \/ set_reverse_direction
    \/ reset
    \/ get
    \/ get_stopped
    \/ get_direction
    \/ hal_initialize_relay_port
    \/ free_relay_port
    \/ check_relay_channel
    \/ set_relay
    \/ get_relay
    \/ clean_notifier
    \/ InterruptHandler_new
    \/ enable
    \/ disable
    \/ attach_handler
    \/ drop
    \/ handler
    \/ spi_port_from
    \/ spi_get_port

Spec == Init /\ [][Next]_vars

\* The owning wrappers and the serial adapters
NextSerial ==
    \/ hal_initialize
    \/ InterruptHandler_new
    \/ drop
    \/ InterruptHandlerSync_new
    \/ InterruptHandlerSync_drop
    \/ HalSpi_new
    \/ HalSpi_drop
    \/ I2C_new
    \/ I2C_drop
    \/ io_read
    \/ io_write
    \/ read
    \/ write

SpecSerial == Init /\ [][NextSerial]_vars

(***************************************************************************)
(* Claims                                                                  *)
(***************************************************************************)
\* The operations that go through hal_call and return the native value as it is,
\* those that return it converted, and those that return unit.
ValueOps == { "get" }
BoolOps == { "get_stopped", "get_direction", "get_relay" }
HandleOps == { "hal_initialize_relay_port", "InterruptHandler::new" }
UnitOps == { "call_ret", "free", "set_reverse_direction", "reset", "set_relay",
             "clean_notifier", "enable", "disable", "attach_handler" }

\* C1: a wrapped call made while the initialization flag is false returns
\* Err(HalNotInitialized) and invokes the native function zero times, in every
\* state any sequence of operations reaches.
C1_NotInitializedFailsLocally ==
    (last.wrapped /\ ~last.init) =>
        /\ last.res = Err(HalNotInitialized)
        /\ last.native = 0

C1_Witness ==
    /\ last.op = "reset"
    /\ ~last.init
    /\ last.res = Err(HalNotInitialized)
    /\ last.native = 0

\* C2: with the flag true and the status left at 0 a wrapped call succeeds: a
\* value call returns exactly the native return value (counter get: 42 -> Ok(42)),
\* a unit call returns Ok(()), whatever the native function returned.
C2_SuccessYieldsNativeValue ==
    (last.wrapped /\ last.init /\ last.status = 0) =>
        /\ last.native = 1
        /\ last.res.tag = "Ok"
        /\ last.op \in ValueOps => last.res = Ok(last.ret)
        /\ last.op \in BoolOps => last.res = Ok(BoolVal(last.ret.n # 0))
        /\ last.op \in HandleOps => (last.res.tag = "Ok" /\ last.res.val.n = last.ret.n)
        /\ last.op \in ValueOps \cup BoolOps \cup HandleOps \cup UnitOps
        /\ last.op \in UnitOps => last.res = Ok(Unit)

C2_Witness ==
    /\ last.op = "get"
    /\ last.init
    /\ last.status = 0
    /\ last.ret = IntVal(42)
    /\ last.res = Ok(IntVal(42))

\* C3: with the flag true and a nonzero status s a wrapped call returns Err(e),
\* e being the translation of s, whatever the native function returned; the relay
\* initializer's RESOURCE_IS_ALLOCATED gives Hal(ResourceIsAllocated) and the
\* unused -9999 gives Hal(Unknown(-9999)).
C3_FailureYieldsTranslatedError ==
    (last.wrapped /\ last.init /\ last.status # 0) =>
        /\ last.native = 1
        /\ last.res = Err(HalError_from(last.status).err)
        /\ last.status = RESOURCE_IS_ALLOCATED =>
              last.res.err = [tag |-> "Hal", kind |-> "ResourceIsAllocated", code |-> 0]
        /\ last.status = -9999 =>
              last.res.err = [tag |-> "Hal", kind |-> "Unknown", code |-> -9999]

C3_Witness ==
    /\ last.op = "hal_initialize_relay_port"
    /\ last.init
    /\ last.status = RESOURCE_IS_ALLOCATED
    /\ last.ret = IntVal(42)
    /\ last.res = Err([tag |-> "Hal", kind |-> "ResourceIsAllocated", code |-> 0])

\* The codes the translation lists, each with the variant named for it
ListedPositive ==
    { <<SAMPLE_RATE_TOO_HIGH, "SampleRateTooHigh">>,
      <<VOLTAGE_OUT_OF_RANGE, "VoltageOutOfRange">>,
      <<LOOP_TIMING_ERROR, "LoopTimingError">>,
      <<SPI_WRITE_NO_MOSI, "SpiWriteNoMosi">>,
      <<SPI_READ_NO_MISO, "SpiReadNoMiso">>,
      <<SPI_READ_NO_DATA, "SpiReadNoData">>,
      <<INCOMPATIBLE_STATE, "IncompatibleState">> }

ListedNegative ==
    { <<NO_AVAILABLE_RESOURCES, "NoAvailableResources">>,
      <<NULL_PARAMETER, "NullParameter">>,
      <<ANALOG_TRIGGER_LIMIT_ORDER_ERROR, "AnalogTriggerLimitOrderError">>,
      <<ANALOG_TRIGGER_PULSE_OUTPUT_ERROR, "AnalogTriggerPuseOutputError">>,
      <<PARAMETER_OUT_OF_RANGE, "ParameterOutOfRange">>,
      <<RESOURCE_IS_ALLOCATED, "ResourceIsAllocated">>,
      <<RESOURCE_OUT_OF_RANGE, "ResourceOutOfRange">>,
      <<HAL_INVALID_ACCUMULATOR_CHANNEL, "InvalidAccumulatorChannel">>,
      <<HAL_COUNTER_NOT_SUPPORTED, "CounterNotSupported">>,
      <<HAL_PWM_SCALE_ERROR, "PwmScaleError">>,
      <<HAL_HANDLE_ERROR, "HandleError">>,
      <<HAL_SERIAL_PORT_NOT_FOUND, "SerialPortNotFound">>,
      <<HAL_SERIAL_PORT_OPEN_ERROR, "SerialPortNotOpen">>,
      <<HAL_SERIAL_PORT_ERROR, "SerialPortError">>,
      <<HAL_THREAD_PRIORITY_ERROR, "ThreadPriorityError">>,
      <<HAL_THREAD_PRIORITY_RANGE_ERROR, "ThreadPriorityRangeError">> }

Listed == ListedPositive \cup ListedNegative

\* C4: the translation gives each listed code the variant named for it, and
\* every other i32 code c, of either sign and up to the extremes, Hal(Unknown(c))
\* with c itself.
C4_TranslationTable ==
    last.conv.called =>
        LET c == last.conv.code
            e == last.conv.err
        IN  /\ e.tag = "Hal"
            /\ \A p \in Listed : p[1] = c => (e.kind = p[2] /\ e.code = 0)
            /\ (\A p \in Listed : p[1] # c) => (e.kind = "Unknown" /\ e.code = c)
            /\ last.res = Err(e)

C4_Witness ==
    /\ last.op = "from"
    /\ last.conv.called
    /\ last.conv.code = I32Min
    /\ last.conv.err = [tag |-> "Hal", kind |-> "Unknown", code |-> I32Min]

\* C5: the sign of the code alone selects the table: a non-negative code gets a
\* positive-table kind or Unknown and only the positive table is consulted, a
\* negative code gets a negative-table kind or Unknown and only the negative
\* table is consulted.
C5_SignSelectsTable ==
    last.conv.called =>
        LET c == last.conv.code
            e == last.conv.err
        IN  /\ c >= 0 => /\ e.kind \in { p[2] : p \in ListedPositive } \cup { "Unknown" }
                         /\ last.conv.tables = { "positive" }
            /\ c < 0 => /\ e.kind \in { p[2] : p \in ListedNegative } \cup { "Unknown" }
                        /\ last.conv.tables = { "negative" }

C5_Witness ==
    /\ last.op = "from"
    /\ last.conv.code = -LOOP_TIMING_ERROR
    /\ last.conv.code = NO_AVAILABLE_RESOURCES
    /\ last.conv.err.kind = "NoAvailableResources"
    /\ last.conv.tables = { "negative" }

\* C6: in a wrapped call a status of zero never reaches the translation, and no
\* wrapped call returns Err(Hal(Unknown(0))).
C6_ZeroNeverTranslated ==
    last.wrapped =>
        /\ last.conv.called => (last.conv.code # 0 /\ last.conv.code = last.status)
        /\ last.status = 0 => ~last.conv.called
        /\ last.res # Err([tag |-> "Hal", kind |-> "Unknown", code |-> 0])

C6_Witness ==
    /\ last.op = "set_relay"
    /\ last.init
    /\ last.native = 1
    /\ last.status = 0
    /\ ~last.conv.called
    /\ last.res = Ok(Unit)

\* C7: every operation that invokes a native function does so through hal_call:
\* none invokes one while the flag is false, and none but the interrupt
\* teardown bypasses the status check.
C7_EveryNativeCallWrapped ==
    last.native > 0 =>
        /\ last.init
        /\ last.op # "drop" => last.wrapped

\* C8: at every native invocation of an attached interrupt handler the context
\* pointer refers to a live callback.
C8_CallbackStorageLive ==
    last.op = "handler" => last.ctx = "live"

\* C9: destroying an InterruptHandler makes exactly one native clean call for
\* its handle, reports no error whatever the status, and the attached callback
\* is not invoked after the destruction.
C9_DropCleansOnce ==
    /\ \A h \in Handlers : ih[h].cleanCalls = (IF ih[h].obj = "dropped" THEN 1 ELSE 0)
    /\ \A h \in Handlers : ih[h].obj = "dropped" => ~(ih[h].open /\ ih[h].attached)
    /\ last.op = "drop" => (last.native = 1 /\ last.res = NoResult /\ ~last.conv.called)
    /\ last.op = "handler" => last.obj = "live"

C9_Witness ==
    \E h \in Handlers :
        /\ ih[h].obj = "dropped"
        /\ ih[h].closure # "none"
        /\ last.op = "drop"
        /\ last.h = h
        /\ last.status # 0

\* The named variants of FfiError (all but Unknown)
NamedKinds ==
    { "SampleRateTooHigh", "VoltageOutOfRange", "LoopTimingError", "SpiWriteNoMosi",
      "SpiReadNoMiso", "SpiReadNoData", "IncompatibleState", "NoAvailableResources",
      "NullParameter", "AnalogTriggerLimitOrderError", "AnalogTriggerPuseOutputError",
      "ParameterOutOfRange", "ResourceIsAllocated", "ResourceOutOfRange",
      "InvalidAccumulatorChannel", "CounterNotSupported", "PwmScaleError", "HandleError",
      "SerialPortNotFound", "SerialPortNotOpen", "SerialPortError", "ThreadPriorityError",
      "ThreadPriorityRangeError" }

ThreadPriorityKinds == { "ThreadPriorityError", "ThreadPriorityRangeError" }

\* The codes, among those exercised, that the translation turns into kind k.
\* The count of them is a property of the function alone: the formulas below
\* evaluate it once, in the initial state.
CodesOf(k) == { c \in AllCodes : HalError_from(c).err.kind = k }

\* C11 (as claimed): the translation never returns ThreadPriorityError or
\* ThreadPriorityRangeError, whatever the code, and every other named kind is
\* returned for exactly one code.
C11_ThreadPriorityNeverReturned ==
    /\ last.conv.called => last.conv.err.kind \notin ThreadPriorityKinds
    /\ last.op = "start" =>
          \A k \in NamedKinds \ ThreadPriorityKinds : Cardinality(CodesOf(k)) = 1

\* C11 (amended): every named kind, the two thread-priority kinds included, is
\* returned for exactly one code: ThreadPriorityError for HAL_THREAD_PRIORITY_ERROR
\* and ThreadPriorityRangeError for HAL_THREAD_PRIORITY_RANGE_ERROR.
C11_EveryNamedKindHasOneCode ==
    /\ last.op = "start" => \A k \in NamedKinds : Cardinality(CodesOf(k)) = 1
    /\ last.conv.called =>
          /\ last.conv.err.kind = "ThreadPriorityError"
                <=> last.conv.code = HAL_THREAD_PRIORITY_ERROR
          /\ last.conv.err.kind = "ThreadPriorityRangeError"
                <=> last.conv.code = HAL_THREAD_PRIORITY_RANGE_ERROR
          /\ last.conv.err.kind \in NamedKinds =>
                <<last.conv.code, last.conv.err.kind>> \in Listed

C11_Witness ==
    /\ last.op = "from"
    /\ last.conv.code = HAL_THREAD_PRIORITY_RANGE_ERROR
    /\ last.conv.err = [tag |-> "Hal", kind |-> "ThreadPriorityRangeError", code |-> 0]

C16_BooleansTranslated ==
    /\ (last.op \in BoolOps /\ last.res.tag = "Ok") =>
          /\ last.res.val = BoolVal(TRUE) <=> last.ret.n # 0
          /\ last.res.val = BoolVal(FALSE) <=> last.ret.n = 0
    /\ (last.op \in { "set_relay", "set_reverse_direction" } /\ last.native = 1) =>
          /\ last.input = BoolVal(TRUE) <=> last.arg = IntVal(1)
          /\ last.input = BoolVal(FALSE) <=> last.arg = IntVal(0)

C16_Witness ==
    /\ last.op = "get_relay"
    /\ last.ret = IntVal(42)
    /\ last.res = Ok(BoolVal(TRUE))

\* C19 (as claimed): SpiPort::from(i).get_port() = i for every integer i, and
\* SpiPort::from(p.get_port()) = p for every SpiPort p, Unknown(k) included.
C19_RoundTripBothWays ==
    last.op \in { "SpiPort::from", "SpiPort::get_port" } => last.back = last.input

\* C19 (amended): SpiPort::from(i).get_port() = i for every integer i, and
\* SpiPort::from(p.get_port()) = p for every SpiPort p except Unknown(k) with
\* 0 <= k <= 4, which comes back as the named port of number k.
C19_RoundTrip ==
    /\ last.op = "SpiPort::from" => last.back = last.input
    /\ last.op = "SpiPort::get_port" =>
          IF last.input.t = "Unknown" /\ last.input.n \in 0..4
          THEN /\ last.back # last.input
               /\ last.back.t # "Unknown"
               /\ get_port(last.back) = last.input.n
          ELSE last.back = last.input

C19_Witness ==
    /\ last.op = "SpiPort::get_port"
    /\ last.input = SpiPortUnknown(I32Min)
    /\ last.res = Plain(IntVal(I32Min))
    /\ last.back = last.input

\* C12: a failed HalSpi::new or InterruptHandler::new returns the error of the
\* failed initialization and brings no object into existence; every object
\* that exists was built from a successful initialization, so no release is
\* ever issued on account of a failed construction.
C12_FailedConstructionLeavesNothing ==
    /\ (last.op \in { "HalSpi::new", "InterruptHandler::new" } /\ last.res.tag = "Err") =>
          /\ ih[last.h].obj = "none"
          /\ last.res.err = IF last.native = 0 THEN HalNotInitialized
                            ELSE HalError_from(last.status).err
          /\ last.native = 1 => last.status # 0
    /\ \A h \in Handlers :
          /\ ih[h].kind \in { "HalSpi", "InterruptHandler" } => ih[h].acquired = 1
          /\ ih[h].kind \in { "HalSpi", "InterruptHandler", "none" } =>
                ih[h].cleanCalls <= ih[h].acquired

C12_Witness ==
    /\ last.op = "HalSpi::new"
    /\ last.native = 1
    /\ last.res = Err(HalError_from(RESOURCE_IS_ALLOCATED).err)
    /\ ih[last.h].obj = "none"
    /\ \E g \in Handlers : ih[g].kind = "HalSpi" /\ ih[g].obj = "dropped"

\* C14 (as claimed): constructing a HalSpi or an I2C for a port that has a
\* live wrapper is rejected (Err(ResourceAlreadyInitialized) without a call of
\* the native initializer, None for I2C), so no two live wrappers of one kind
\* stand for the same port.
C14_DoubleInitializationRejected ==
    /\ (last.op = "HalSpi::new" /\ last.ctx = "port live") =>
          /\ last.res = Err(ResourceAlreadyInitialized)
          /\ last.native = 0
    /\ (last.op = "I2C::new" /\ last.ctx = "port live") => last.res = OptionNone
    /\ \A g, h \in Handlers :
          (/\ g # h
           /\ ih[g].obj = "live"
           /\ ih[h].obj = "live"
           /\ ih[g].kind = ih[h].kind
           /\ ih[g].kind \in { "HalSpi", "I2C" }) => ih[g].port # ih[h].port

\* The resources the owning wrappers stand for: an SPI port, an I2C port, the
\* native interrupt handle of a table entry
Acquired(kind, port) ==
    Cardinality({ h \in Handlers :
                    ih[h].kind = kind /\ ih[h].port = port /\ ih[h].acquired = 1 })
Released(kind, port) ==
    Cardinality({ h \in Handlers :
                    ih[h].kind = kind /\ ih[h].port = port /\ ih[h].cleanCalls = 1 })

\* C15 (as claimed): once every wrapper has been destroyed, each native
\* resource has been released as many times as it was successfully acquired.
C15_ReleasedAsOftenAsAcquired ==
    (\A h \in Handlers : ih[h].obj # "live") =>
        /\ \A h \in Handlers :
              /\ ih[h].cleanCalls <= 1
              /\ ih[h].kind \in { "InterruptHandler", "InterruptHandlerSync" } =>
                    ih[h].cleanCalls = ih[h].acquired
        /\ \A kind \in { "HalSpi", "I2C" }, port \in { 0, 1, 4 } :
              Released(kind, port) = Acquired(kind, port)

\* C17: read / write return an error wrapping the HalError that hal_read /
\* hal_write returned, a ReadError / WriteError for a negative count, and
\* otherwise Ok(n) with n the count returned.
C17_FailureNeverBecomesCount ==
    /\ last.op \in { "Read::read", "Write::write" } =>
          CASE last.input.tag = "Err" ->
                  /\ last.res.tag = "Err"
                  /\ last.res.err.tag = "io::Error"
                  /\ last.res.err.inner = last.input.err
            [] last.input.tag = "Ok" /\ last.input.val.n < 0 ->
                  /\ last.res.tag = "Err"
                  /\ last.res.err.tag = "io::Error"
                  /\ last.res.err.inner = IF last.op = "Read::read" THEN SerialReadError
                                          ELSE SerialWriteError
            [] OTHER ->
                  /\ last.res.tag = "Ok"
                  /\ last.res.val = [t |-> "usize", n |-> last.input.val.n]
    /\ last.op \in { "read", "write" } =>
          IF last.ret.n < 0
          THEN /\ last.res.tag = "Err"
               /\ last.res.err.inner = IF last.op = "read" THEN SerialReadError
                                       ELSE SerialWriteError
          ELSE last.res = Ok([t |-> "usize", n |-> last.ret.n])

C17_Witness ==
    /\ last.op = "Read::read"
    /\ last.input = Ok(IntVal(-1))
    /\ last.res = Err(IoOther(SerialReadError))

\* C18 (as claimed): a read through HalSpi or I2C asks the native read for no
\* more bytes than the caller's buffer holds, and a successful read reports no
\* more bytes than the buffer holds.
C18_RequestWithinBuffer ==
    last.op = "read" =>
        /\ last.arg.n <= last.input.n
        /\ last.res.tag = "Ok" => last.res.val.n <= last.input.n

====
